---- MODULE Spec2Model ----
(***************************************************************************)
(* hilicurl: an HTTP "ping".  main() installs an interrupt handler, then   *)
(* runRequests() loops: if the run context is done it prints the           *)
(* statistics and returns, otherwise it starts one probe goroutine and     *)
(* sleeps for the interval.  Each probe goroutine calls request() and      *)
(* appends the returned Record to the slice `records`, which it shares     *)
(* with every other probe goroutine and with the scheduler, without a      *)
(* lock.                                                                   *)
(*                                                                         *)
(* The model follows src/hilicurl.go.  Every goroutine has a program       *)
(* counter; every access to shared memory is a step of its own.            *)
(* TimedSpec is the same program run against a clock; OldSpec is the       *)
(* program's earlier iterations, src/unnamed/part_000, part_001, part_003. *)
(***************************************************************************)
EXTENDS Integers, Sequences, FiniteSets

\* Probes the scheduler may dispatch in a run, and interrupts the operator
\* may send.
MaxProbes == 2
MaxInterrupts == 1

\* make([]Record, 0, 10): the capacity of the backing array of `records`.
InitCap == 10

VARIABLES
    urlOK,       \* input: http.NewRequestWithContext accepts the URL
    procState,   \* "running" | "exited" (main returned) | "crashed" (panic)
    handlerPc,   \* goroutine of setupCloseHandler: "start" | "select" | "caught" | "exit"
    interrupts,  \* SIGINTs delivered to the process so far
    cancelled,   \* the run context (ctx) is done
    schedPc,     \* runRequests: "select" (asleep or about to select) | "dispatch" |
                 \* "report" | "count" | "return" | "done"
    probes,      \* probe goroutine i: its position and locals; pc is "idle" |
                 \* "req" | "reqX" | "body" | "bodyX" (X: the deadline has passed) |
                 \* "ret" | "app" | "appE" | "appL" | "done" | "panic"
    arr,         \* backing array of `records`: slot -> Record
    hdrLen,      \* len field of the slice header `records`
    rLen,        \* printStatistics: len(records) of the slice value it was passed
    rIdx,        \* printStatistics: elements ranged over so far
    nRes,        \* printStatistics: nRes
    reports,     \* times the statistics line has been printed
    report       \* the statistics line printed (NoReport until then)

\* The run of src/hilicurl.go with time left out.
svars == <<urlOK, procState, handlerPc, interrupts, cancelled, schedPc, probes,
           arr, hdrLen, rLen, rIdx, nRes, reports, report>>

\* The same program run against the clock (TimedSpec, below): a scenario
\* fixes the interval, the timeout, how long the server takes and when the
\* run is cancelled.
VARIABLES
    tScn,        \* the scenario: [name, interval, timeout, latencies, cancelAt]
    tNow,        \* the time, in ms since runRequests was entered
    tCancelled,  \* ctx is done
    tSchedPc,    \* runRequests: "select" | "dispatch" | "report" | "count" | "done"
    tWake,       \* when the time.Sleep in progress ends
    tProbes,     \* probe goroutine i: [pc, start, due, rec, snap]
    tArr,        \* backing array of `records`
    tLen,        \* len of `records`
    tRLen,       \* printStatistics: len(records)
    tRIdx,       \* printStatistics: elements ranged over so far
    tNRes,       \* printStatistics: nRes
    tReport      \* the statistics line printed (NoReport until then)

tvars == <<tScn, tNow, tCancelled, tSchedPc, tWake, tProbes, tArr, tLen,
           tRLen, tRIdx, tNRes, tReport>>

\* The earlier iterations of the program that keep a collection of
\* responses (OldSpec, below): src/unnamed/part_003 (requests made by the
\* scheduler itself), part_001 (one goroutine per request) and part_000
\* (the goroutine gets the response from request() over a channel).
VARIABLES
    oIter,       \* which iteration runs: "part_000" | "part_001" | "part_003"
    oCancelled,  \* ctx is done
    oSchedPc,    \* runRequests: "select" | "dispatch" | "report" | "count" | "done"
    oProbes,     \* request i: [pc, res, snap]; pc is "idle" | "req" | "body" |
                 \* "out" | "ret" | "app" | "appE" | "appL" | "done"
    oHdr,        \* the slice header `responses`: [ptr, len]
    oHeap,       \* the backing arrays allocated by append: ptr -> elements
                 \* after the first OldInitLen
    oRHdr,       \* printStatistics: the slice value it was passed
    oRIdx,       \* printStatistics: elements ranged over so far
    oNRes,       \* printStatistics: nRes
    oAppended,   \* appends that had completed when printStatistics was called
    oReport      \* the statistics line printed (NoReport until then)

ovars == <<oIter, oCancelled, oSchedPc, oProbes, oHdr, oHeap, oRHdr, oRIdx,
           oNRes, oAppended, oReport>>

\* The variables of the specifications other than Spec.
xvars == <<tvars, ovars>>

\* The variables a timed run leaves alone.
notTimed == <<svars, ovars>>

\* The variables a run of an earlier iteration leaves alone.
notOld == <<svars, tvars>>

vars == <<svars, xvars>>

ProbeIds == 1..MaxProbes

\* type Record struct: each field is modelled by whether it is set
\* (non-nil pointer, non-zero duration).
ZeroRecord == [Request |-> FALSE, Response |-> FALSE, ElapsedTime |-> FALSE]

\* A probe goroutine that has not been started.
\* status and failedAt are the classification of spec section 4.2 of what
\* happened to the probe; the program does not store them.
\* code is the HTTP status code of the response received (0: none).
IdleProbe ==
    [pc |-> "idle", rec |-> ZeroRecord,
     status |-> "none", failedAt |-> "none", code |-> 0, snap |-> 0]

\* A probe goroutine that has ended: its locals are gone.
DoneProbe == [IdleProbe EXCEPT !.pc = "done"]

\* A float64 as "%.2f" prints it: a finite value, in hundredths, or one of
\* the special values.
Finite(h) == [class |-> "finite", hundredths |-> h]
NaN == [class |-> "NaN", hundredths |-> 0]
PosInf == [class |-> "+Inf", hundredths |-> 0]
NegInf == [class |-> "-Inf", hundredths |-> 0]

NoReport == [nReq |-> -1, nRes |-> -1, timeoutRate |-> NaN]

Running == procState = "running"

NumDispatched == Cardinality({i \in ProbeIds : probes[i].pc # "idle"})

\* Probes a timed scenario may dispatch.
MaxTimedProbes == 8

TimedProbeIds == 1..MaxTimedProbes

\* A probe goroutine of a timed run that has not been started.  start is
\* when it was dispatched; due holds the time the server's response is
\* complete, and is empty when the server never answers.
IdleTimedProbe ==
    [pc |-> "idle", start |-> 0, due |-> {}, rec |-> ZeroRecord, snap |-> 0]

NoScenario ==
    [name |-> "none", interval |-> 0, timeout |-> 0, latencies |-> {},
     cancelAt |-> 0]

\* Requests an earlier iteration may make in a run.
MaxOldProbes == 2

OldProbeIds == 1..MaxOldProbes

\* make([]*http.Response, 10): the length, and the capacity, of `responses`
\* on entry to runRequests.
OldInitLen == 10

\* A request of an earlier iteration that has not been started.  res is
\* whether the *http.Response it holds is non-nil; snap is the slice header
\* append loaded.
IdleOldProbe == [pc |-> "idle", res |-> FALSE, snap |-> [ptr |-> 0, len |-> 0]]

\* An earlier iteration on entry to runRequests.  The array make allocated
\* has ptr 0: it holds OldInitLen nils and is full.
OldStart(iter) ==
    /\ oIter = iter
    /\ oCancelled = FALSE
    /\ oSchedPc = "select"
    /\ oProbes = [i \in OldProbeIds |-> IdleOldProbe]
    /\ oHdr = [ptr |-> 0, len |-> OldInitLen]
    /\ oHeap = [a \in OldProbeIds |-> [k \in OldProbeIds |-> FALSE]]
    /\ oRHdr = [ptr |-> 0, len |-> 0]
    /\ oRIdx = 0
    /\ oNRes = 0
    /\ oAppended = 0
    /\ oReport = NoReport

\* The timed run on entry to runRequests, under scenario scn.
TimedStart(scn) ==
    /\ tScn = scn
    /\ tNow = 0
    /\ tCancelled = FALSE
    /\ tSchedPc = "select"
    /\ tWake = 0
    /\ tProbes = [i \in TimedProbeIds |-> IdleTimedProbe]
    /\ tArr = [s \in 1..InitCap |-> ZeroRecord]
    /\ tLen = 0
    /\ tRLen = 0
    /\ tRIdx = 0
    /\ tNRes = 0
    /\ tReport = NoReport

\* The untimed run on entry to the loop of runRequests.
Start(ok) ==
    /\ urlOK = ok
    /\ procState = "running"
    /\ handlerPc = "start"
    /\ interrupts = 0
    /\ cancelled = FALSE
    /\ schedPc = "select"
    /\ probes = [i \in ProbeIds |-> IdleProbe]
    /\ arr = [s \in 1..InitCap |-> ZeroRecord]
    /\ hdrLen = 0
    /\ rLen = 0
    /\ rIdx = 0
    /\ nRes = 0
    /\ reports = 0
    /\ report = NoReport

Init ==
    /\ TimedStart(NoScenario)
    /\ OldStart("none")
    /\ urlOK \in BOOLEAN
    /\ procState = "running"
    /\ handlerPc = "start"
    /\ interrupts = 0
    /\ cancelled = FALSE
    /\ schedPc = "select"
    /\ probes = [i \in ProbeIds |-> IdleProbe]
    /\ arr = [s \in 1..InitCap |-> ZeroRecord]
    /\ hdrLen = 0
    /\ rLen = 0
    /\ rIdx = 0
    /\ nRes = 0
    /\ reports = 0
    /\ report = NoReport

----------------------------------------------------------------------------
(* setupCloseHandler and the operator's interrupt *)

\* The handler goroutine reaches its select and blocks receiving from c.
HandlerStart ==
    /\ Running
    /\ handlerPc = "start"
    /\ handlerPc' = "select"
    /\ UNCHANGED <<xvars, urlOK, procState, interrupts, cancelled, schedPc, probes,
                   arr, hdrLen, rLen, rIdx, nRes, reports, report>>

\* Whether a signal sent on c is received.  c is unbuffered and package
\* signal never blocks sending: the signal is received only if the handler
\* goroutine is blocked in its select at that moment, and dropped otherwise.
SignalReceived(hpc) == hpc = "select"

\* The operator presses Ctrl+C: the runtime delivers os.Interrupt.
Interrupt ==
    /\ Running
    /\ interrupts < MaxInterrupts
    /\ interrupts' = interrupts + 1
    /\ handlerPc' = IF SignalReceived(handlerPc) THEN "caught" ELSE handlerPc
    /\ UNCHANGED <<xvars, urlOK, procState, cancelled, schedPc, probes,
                   arr, hdrLen, rLen, rIdx, nRes, reports, report>>

\* case <-c: log; cancel()
HandlerCancel ==
    /\ Running
    /\ handlerPc = "caught"
    /\ cancelled' = TRUE
    /\ handlerPc' = "exit"
    /\ UNCHANGED <<xvars, urlOK, procState, interrupts, schedPc, probes,
                   arr, hdrLen, rLen, rIdx, nRes, reports, report>>

----------------------------------------------------------------------------
(* runRequests: the scheduler loop *)

\* A select that consults a context nobody cancels (context.Background()).
CtxDoneBackground == FALSE

\* case <-ctx.Done() of the scheduler's select is ready.
CtxDone == cancelled

\* time.Sleep(*interval) of the previous iteration, if any, returns;
\* select { case <-ctx.Done(): ... default: ... }
\* The default branch is explored for at most MaxProbes dispatches.
Select ==
    /\ Running
    /\ schedPc = "select"
    /\ IF CtxDone
         THEN schedPc' = "report"
         ELSE /\ NumDispatched < MaxProbes
              /\ schedPc' = "dispatch"
    /\ UNCHANGED <<xvars, urlOK, procState, handlerPc, interrupts, cancelled, probes,
                   arr, hdrLen, rLen, rIdx, nRes, reports, report>>

\* Probe goroutines still running.
Unfinished == {i \in ProbeIds : probes[i].pc \notin {"idle", "done"}}

\* A scheduler that waits for the probes it started (a WaitGroup).
WaitsForUnfinished == Unfinished

\* The probe goroutines the go statement waits for before it starts the
\* next one: none, the loop keeps no handle on them.
DispatchWaitsFor == {}

\* The probe goroutines the scheduler waits for before it prints the
\* statistics: none.
ReportWaitsFor == {}

\* go func() { tCtx, cancel := context.WithTimeout(ctx, *timeout); ... }();
\* time.Sleep(*interval) begins.  The goroutine is started with its request
\* not yet issued.
Dispatch ==
    /\ Running
    /\ schedPc = "dispatch"
    /\ DispatchWaitsFor = {}
    /\ LET i == NumDispatched + 1 IN
         probes' = [probes EXCEPT ![i].pc = "req"]
    /\ schedPc' = "select"
    /\ UNCHANGED <<xvars, urlOK, procState, handlerPc, interrupts, cancelled,
                   arr, hdrLen, rLen, rIdx, nRes, reports, report>>

----------------------------------------------------------------------------
(* The probe goroutine: request() *)

\* A tCtx derived from context.Background() instead of ctx: the run's
\* cancellation does not reach it.
TCtxDoneDeadlineOnly(i) == probes[i].pc \in {"reqX", "bodyX"}

\* tCtx, derived from ctx with the timeout, is done: the first of the
\* probe's deadline and the run's cancellation.
TCtxDone(i) == probes[i].pc \in {"reqX", "bodyX"} \/ cancelled

\* The deadline of tCtx has passed.
Expired(i) == probes[i].pc \in {"reqX", "bodyX"}

\* The deadline of tCtx passes while the request is in flight.
ProbeTimeout(i) ==
    /\ Running
    /\ probes[i].pc \in {"req", "body"}
    /\ probes' = [probes EXCEPT ![i].pc = IF @ = "req" THEN "reqX" ELSE "bodyX"]
    /\ UNCHANGED <<xvars, urlOK, procState, handlerPc, interrupts, cancelled, schedPc,
                   arr, hdrLen, rLen, rIdx, nRes, reports, report>>

\* req, err := http.NewRequestWithContext(ctx, "GET", url, nil): req is
\* non-nil exactly when the URL parses; err is overwritten unread.
NewRequest == urlOK

\* http.DefaultClient.Do(req) with req == nil dereferences req.URL: a nil
\* pointer panic in the probe goroutine.  The recover() deferred in main
\* covers only the main goroutine, so the process dies.
DoPanic(i) ==
    /\ Running
    /\ probes[i].pc \in {"req", "reqX"}
    /\ ~NewRequest
    /\ procState' = "crashed"
    /\ probes' = [probes EXCEPT ![i].pc = "panic"]
    /\ UNCHANGED <<xvars, urlOK, handlerPc, interrupts, cancelled, schedPc,
                   arr, hdrLen, rLen, rIdx, nRes, reports, report>>

\* The ways Do can return for probe i.  "response": (res, nil).
\* "transport": (nil, err), a DNS, connect or TLS failure.  "deadline" and
\* "canceled": (nil, err) because tCtx is done.  "redirect": the redirect
\* limit of the default client, the one case where Do returns a non-nil
\* response together with an error.
DoOutcomes(i) ==
    {"transport", "redirect"}
      \cup (IF TCtxDone(i) THEN {} ELSE {"response"})
      \cup (IF Expired(i) THEN {"deadline"} ELSE {})
      \cup (IF cancelled THEN {"canceled"} ELSE {})

\* A Do that returns a response whatever the error.
DoResponseAlwaysSet(e) == e = e

\* res of res, err := Do(req) is non-nil.
DoResponseSet(e) == e \in {"response", "redirect"}

\* The classification of spec section 4.2 for a failure with cause e.
Classify(e) == IF e = "deadline" THEN "TimedOut" ELSE "TransportError"

\* The HTTP status codes a response may carry: a success and a server error.
HTTPCodes == {200, 500}

\* The status codes Do's outcome e may come with.
CodesOf(e) == IF e = "response" THEN HTTPCodes ELSE {0}

\* A request() that returns a response with a 4xx or 5xx status as if Do
\* had failed.
RecAfterDoRejectsErrorStatus(req, e, code) ==
    [Request |-> req, Response |-> DoResponseSet(e) /\ code < 400,
     ElapsedTime |-> FALSE]

\* A request() that sets ElapsedTime as soon as Do returns a response.
RecAfterDoElapsedEarly(req, e, code) ==
    [Request |-> req, Response |-> DoResponseSet(e),
     ElapsedTime |-> DoResponseSet(e)]

\* rec after rec.Request = req; res, err := Do(req); rec.Response = res.
\* The status code of the response is not looked at.
RecAfterDo(req, e, code) ==
    [Request |-> req, Response |-> DoResponseSet(e), ElapsedTime |-> FALSE]

\* rec.Request = req; res, err := Do(req); rec.Response = res;
\* if err != nil { return rec }
Do(i) ==
    /\ Running
    /\ probes[i].pc \in {"req", "reqX"}
    /\ NewRequest
    /\ \E e \in DoOutcomes(i) : \E c \in CodesOf(e) :
         LET r == RecAfterDo(NewRequest, e, c)
         IN  probes' = [probes EXCEPT ![i] =
                 IF e = "response"
                   THEN [@ EXCEPT !.pc = "body", !.rec = r, !.code = c]
                   ELSE [@ EXCEPT !.pc = "ret", !.rec = r,
                                  !.status = Classify(e), !.failedAt = "do"]]
    /\ UNCHANGED <<xvars, urlOK, procState, handlerPc, interrupts, cancelled, schedPc,
                   arr, hdrLen, rLen, rIdx, nRes, reports, report>>

\* The ways ioutil.ReadAll(res.Body) can return for probe i.
ReadOutcomes(i) ==
    {"readerr"}
      \cup (IF TCtxDone(i) THEN {} ELSE {"ok"})
      \cup (IF Expired(i) THEN {"deadline"} ELSE {})
      \cup (IF cancelled THEN {"canceled"} ELSE {})

\* bytes, err := ioutil.ReadAll(res.Body); if err != nil { return rec };
\* ...; rec.ElapsedTime = elapsed; return rec
ReadBody(i) ==
    /\ Running
    /\ probes[i].pc \in {"body", "bodyX"}
    /\ \E e \in ReadOutcomes(i) :
         probes' = [probes EXCEPT ![i] =
             IF e = "ok"
               THEN [@ EXCEPT !.pc = "ret", !.rec.ElapsedTime = TRUE,
                              !.status = "Success"]
               ELSE [@ EXCEPT !.pc = "ret",
                              !.status = Classify(e), !.failedAt = "body"]]
    /\ UNCHANGED <<xvars, urlOK, procState, handlerPc, interrupts, cancelled, schedPc,
                   arr, hdrLen, rLen, rIdx, nRes, reports, report>>

----------------------------------------------------------------------------
(* The probe goroutine: records = append(records, res)                     *)
(*                                                                         *)
(* The append is a load of the slice header, a store of the element at     *)
(* index len and a store of the new len.  Nothing orders these against     *)
(* the other goroutines, and the two stores may be emitted in either       *)
(* order.  The capacity is never reached within MaxProbes (NoGrowth), so   *)
(* the backing array is never reallocated.                                 *)

\* res := request(tCtx, url) has returned; the slice header is loaded.
AppendLoad(i) ==
    /\ Running
    /\ probes[i].pc = "ret"
    /\ probes' = [probes EXCEPT ![i] =
           [IdleProbe EXCEPT !.pc = "app", !.rec = probes[i].rec, !.snap = hdrLen]]
    /\ UNCHANGED <<xvars, urlOK, procState, handlerPc, interrupts, cancelled, schedPc,
                   arr, hdrLen, rLen, rIdx, nRes, reports, report>>

AppendStoreElem(i) ==
    /\ Running
    /\ probes[i].pc \in {"app", "appL"}
    /\ probes[i].snap < InitCap
    /\ arr' = [arr EXCEPT ![probes[i].snap + 1] = probes[i].rec]
    /\ probes' = [probes EXCEPT ![i] =
           IF @.pc = "app" THEN [@ EXCEPT !.pc = "appE"] ELSE DoneProbe]
    /\ UNCHANGED <<xvars, urlOK, procState, handlerPc, interrupts, cancelled, schedPc,
                   hdrLen, rLen, rIdx, nRes, reports, report>>

AppendStoreLen(i) ==
    /\ Running
    /\ probes[i].pc \in {"app", "appE"}
    /\ probes[i].snap < InitCap
    /\ hdrLen' = probes[i].snap + 1
    /\ probes' = [probes EXCEPT ![i] =
           IF @.pc = "app" THEN [@ EXCEPT !.pc = "appL"] ELSE DoneProbe]
    /\ UNCHANGED <<xvars, urlOK, procState, handlerPc, interrupts, cancelled, schedPc,
                   arr, rLen, rIdx, nRes, reports, report>>

NoGrowth == hdrLen < InitCap

----------------------------------------------------------------------------
(* printStatistics *)

\* A count of the records without a response: if rec.Response == nil.
CountsAsResponseInverted(rec) == ~rec.Response

\* if rec.Response != nil { nRes++ }
CountsAsResponse(rec) == rec.Response

\* A loop that runs one element past len (i <= len).
RangeEndOffByOne(n) == n + 1

\* for _, rec := range records: the number of elements ranged over.
RangeEnd(n) == n

\* float64(nTimeout) / float64(nReq) * 100 as "%.2f" prints it: the value
\* in hundredths of a percent, rounded half to even; x/0 is NaN or an
\* infinity in float64 arithmetic, not a panic.
TimeoutRate(nTimeout, nReq) ==
    IF nReq = 0
      THEN (IF nTimeout = 0 THEN NaN ELSE IF nTimeout > 0 THEN PosInf ELSE NegInf)
      ELSE LET num == nTimeout * 10000
               q   == num \div nReq
               r   == num % nReq
           IN  Finite(IF 2 * r < nReq THEN q
                      ELSE IF 2 * r > nReq THEN q + 1
                      ELSE IF q % 2 = 0 THEN q ELSE q + 1)

\* fmt.Printf("--- GET %s statistics ---\n", url); printStatistics(records):
\* the slice header is read and passed by value.
ReportLoad ==
    /\ Running
    /\ schedPc = "report"
    /\ ReportWaitsFor = {}
    /\ rLen' = hdrLen
    /\ rIdx' = 0
    /\ nRes' = 0
    /\ schedPc' = "count"
    /\ UNCHANGED <<xvars, urlOK, procState, handlerPc, interrupts, cancelled, probes,
                   arr, hdrLen, reports, report>>

\* One iteration of the range loop: a read of the backing array.
ReportStep ==
    /\ Running
    /\ schedPc = "count"
    /\ rIdx < RangeEnd(rLen)
    /\ nRes' = IF CountsAsResponse(arr[rIdx + 1]) THEN nRes + 1 ELSE nRes
    /\ rIdx' = rIdx + 1
    /\ UNCHANGED <<xvars, urlOK, procState, handlerPc, interrupts, cancelled, schedPc,
                   probes, arr, hdrLen, rLen, reports, report>>

\* nTimeout := nReq - nRes; timeoutRate := ...; fmt.Printf(...)
ReportPrint ==
    /\ Running
    /\ schedPc = "count"
    /\ rIdx >= RangeEnd(rLen)
    /\ report' = [nReq |-> rLen, nRes |-> nRes,
                  timeoutRate |-> TimeoutRate(rLen - nRes, rLen)]
    /\ reports' = reports + 1
    /\ schedPc' = "return"
    /\ UNCHANGED <<xvars, urlOK, procState, handlerPc, interrupts, cancelled, probes,
                   arr, hdrLen, rLen, rIdx, nRes>>

\* runRequests returns, then main: the process exits and every goroutine
\* still running ends with it.
Return ==
    /\ Running
    /\ schedPc = "return"
    /\ schedPc' = "done"
    /\ procState' = "exited"
    /\ UNCHANGED <<xvars, urlOK, handlerPc, interrupts, cancelled, probes,
                   arr, hdrLen, rLen, rIdx, nRes, reports, report>>

----------------------------------------------------------------------------

Probe(i) ==
    \/ ProbeTimeout(i)
    \/ DoPanic(i)
    \/ Do(i)
    \/ ReadBody(i)
    \/ AppendLoad(i)
    \/ AppendStoreElem(i)
    \/ AppendStoreLen(i)

Next ==
    \/ HandlerStart
    \/ Interrupt
    \/ HandlerCancel
    \/ Select
    \/ Dispatch
    \/ ReportLoad
    \/ ReportStep
    \/ ReportPrint
    \/ Return
    \/ \E i \in ProbeIds : Probe(i)

Spec == Init /\ [][Next]_vars

\* The request of probe i returns because tCtx is done: net/http gives up a
\* request whose context is done, in Do and in the read of the body.
CtxReturn(i) == TCtxDone(i) /\ (Do(i) \/ ReadBody(i))

\* The fairness the runtime and net/http give a probe goroutine: a request
\* whose context is done returns, and a goroutine about to panic does.
\* Nothing makes the server answer, and nothing is assumed of the other
\* goroutines.
LiveSpec ==
    /\ Spec
    /\ \A i \in ProbeIds : WF_vars(CtxReturn(i)) /\ WF_vars(DoPanic(i))

----------------------------------------------------------------------------
(* The run against the clock                                               *)
(*                                                                         *)
(* Statements take no time; time passes only in time.Sleep and while a     *)
(* request waits for the server.  The clock moves to the next instant at   *)
(* which something is due, and only when no goroutine has a step to take.  *)
(* The run is cancelled by cancel() taking effect at the scenario's        *)
(* cancelAt.                                                               *)

\* defaultTimeout = 60 * time.Second, in ms.
DefaultTimeoutMs == 60000

\* The scenarios of spec section 8.  The server answers each request after
\* one of `latencies` ms, or never if there is none.
Scenarios ==
    {[name |-> "C12", interval |-> 100, timeout |-> DefaultTimeoutMs,
      latencies |-> {l}, cancelAt |-> c] : l \in {5, 250}, c \in {525, 550, 575}}
    \cup
    {[name |-> "C13", interval |-> 50, timeout |-> DefaultTimeoutMs,
      latencies |-> {1, 9}, cancelAt |-> c] : c \in {240, 250}}
    \cup
    {[name |-> "C14", interval |-> 50, timeout |-> 20,
      latencies |-> {}, cancelAt |-> c] : c \in {240, 250}}

TimedInit ==
    /\ Start(TRUE)
    /\ OldStart("none")
    /\ \E scn \in Scenarios : TimedStart(scn)

TimedRunning == tSchedPc # "done"

TNumDispatched == Cardinality({i \in TimedProbeIds : tProbes[i].pc # "idle"})

\* cancel() takes effect.
TCancel ==
    /\ TimedRunning
    /\ ~tCancelled
    /\ tNow = tScn.cancelAt
    /\ tCancelled' = TRUE
    /\ UNCHANGED <<notTimed, tScn, tNow, tSchedPc, tWake, tProbes, tArr, tLen,
                   tRLen, tRIdx, tNRes, tReport>>

\* time.Sleep has returned and the select is evaluated.  time.Sleep pauses
\* for at least the interval and the statements before the select take some
\* time, however little: a cancellation that takes effect at the very
\* instant the sleep was due to end is seen by this select.
TSelect ==
    /\ TimedRunning
    /\ tSchedPc = "select"
    /\ tNow >= tWake
    /\ tCancelled \/ tNow < tScn.cancelAt
    /\ IF tCancelled
         THEN tSchedPc' = "report"
         ELSE /\ TNumDispatched < MaxTimedProbes
              /\ tSchedPc' = "dispatch"
    /\ UNCHANGED <<notTimed, tScn, tNow, tCancelled, tWake, tProbes, tArr, tLen,
                   tRLen, tRIdx, tNRes, tReport>>

\* A time.Sleep called with the timeout instead of the interval.
SleepUntilTimeout(now) == now + tScn.timeout

\* time.Sleep(*interval) called at `now` ends at:
SleepUntil(now) == now + tScn.interval

\* When the server's response to a request sent now is complete.
DueChoices ==
    IF tScn.latencies = {} THEN {{}} ELSE {{tNow + l} : l \in tScn.latencies}

\* go func() { ... }(); time.Sleep(*interval)
TDispatch ==
    /\ TimedRunning
    /\ tSchedPc = "dispatch"
    /\ DispatchWaitsFor = {}
    /\ \E d \in DueChoices :
         tProbes' = [tProbes EXCEPT ![TNumDispatched + 1] =
                        [@ EXCEPT !.pc = "req", !.start = tNow, !.due = d]]
    /\ tWake' = SleepUntil(tNow)
    /\ tSchedPc' = "select"
    /\ UNCHANGED <<notTimed, tScn, tNow, tCancelled, tArr, tLen,
                   tRLen, tRIdx, tNRes, tReport>>

\* The deadline of tCtx: context.WithTimeout(ctx, *timeout).
TDeadline(i) == tProbes[i].start + tScn.timeout

TExpired(i) == tNow >= TDeadline(i)

\* tCtx is done.
TTCtxDone(i) == TExpired(i) \/ tCancelled

\* The server's response to probe i is complete.
TAnswered(i) == \E t \in tProbes[i].due : tNow >= t

\* How Do returns for probe i at this instant, if it does.
TDoOutcomes(i) ==
    (IF TAnswered(i) /\ ~TTCtxDone(i) THEN {"response"} ELSE {})
      \cup (IF TExpired(i) THEN {"deadline"} ELSE {})
      \cup (IF tCancelled /\ ~TExpired(i) THEN {"canceled"} ELSE {})

\* rec.Request = req; res, err := Do(req); rec.Response = res;
\* if err != nil { return rec }
TDo(i) ==
    /\ TimedRunning
    /\ tProbes[i].pc = "req"
    /\ \E e \in TDoOutcomes(i) : \E c \in CodesOf(e) :
         tProbes' = [tProbes EXCEPT ![i] =
             [@ EXCEPT !.pc = IF e = "response" THEN "body" ELSE "ret",
                       !.rec = RecAfterDo(TRUE, e, c)]]
    /\ UNCHANGED <<notTimed, tScn, tNow, tCancelled, tSchedPc, tWake, tArr, tLen,
                   tRLen, tRIdx, tNRes, tReport>>

\* bytes, err := ioutil.ReadAll(res.Body); ...; rec.ElapsedTime = elapsed
\* The body is there with the headers: the read ends at once, with an error
\* if tCtx is done.
TReadBody(i) ==
    /\ TimedRunning
    /\ tProbes[i].pc = "body"
    /\ tProbes' = [tProbes EXCEPT ![i] =
           [@ EXCEPT !.pc = "ret",
                     !.rec.ElapsedTime = ~TTCtxDone(i)]]
    /\ UNCHANGED <<notTimed, tScn, tNow, tCancelled, tSchedPc, tWake, tArr, tLen,
                   tRLen, tRIdx, tNRes, tReport>>

\* records = append(records, res): load, store of the element, store of len.
TAppendLoad(i) ==
    /\ TimedRunning
    /\ tProbes[i].pc = "ret"
    /\ tProbes' = [tProbes EXCEPT ![i].pc = "app", ![i].snap = tLen]
    /\ UNCHANGED <<notTimed, tScn, tNow, tCancelled, tSchedPc, tWake, tArr, tLen,
                   tRLen, tRIdx, tNRes, tReport>>

TAppendStoreElem(i) ==
    /\ TimedRunning
    /\ tProbes[i].pc \in {"app", "appL"}
    /\ tProbes[i].snap < InitCap
    /\ tArr' = [tArr EXCEPT ![tProbes[i].snap + 1] = tProbes[i].rec]
    /\ tProbes' = [tProbes EXCEPT ![i] =
           IF @.pc = "app" THEN [@ EXCEPT !.pc = "appE"]
           ELSE [IdleTimedProbe EXCEPT !.pc = "done", !.start = tProbes[i].start]]
    /\ UNCHANGED <<notTimed, tScn, tNow, tCancelled, tSchedPc, tWake, tLen,
                   tRLen, tRIdx, tNRes, tReport>>

TAppendStoreLen(i) ==
    /\ TimedRunning
    /\ tProbes[i].pc \in {"app", "appE"}
    /\ tProbes[i].snap < InitCap
    /\ tLen' = tProbes[i].snap + 1
    /\ tProbes' = [tProbes EXCEPT ![i] =
           IF @.pc = "app" THEN [@ EXCEPT !.pc = "appL"]
           ELSE [IdleTimedProbe EXCEPT !.pc = "done", !.start = tProbes[i].start]]
    /\ UNCHANGED <<notTimed, tScn, tNow, tCancelled, tSchedPc, tWake, tArr,
                   tRLen, tRIdx, tNRes, tReport>>

\* printStatistics(records)
TReportLoad ==
    /\ TimedRunning
    /\ tSchedPc = "report"
    /\ ReportWaitsFor = {}
    /\ tRLen' = tLen
    /\ tRIdx' = 0
    /\ tNRes' = 0
    /\ tSchedPc' = "count"
    /\ UNCHANGED <<notTimed, tScn, tNow, tCancelled, tWake, tProbes, tArr, tLen,
                   tReport>>

TReportStep ==
    /\ TimedRunning
    /\ tSchedPc = "count"
    /\ tRIdx < RangeEnd(tRLen)
    /\ tNRes' = IF CountsAsResponse(tArr[tRIdx + 1]) THEN tNRes + 1 ELSE tNRes
    /\ tRIdx' = tRIdx + 1
    /\ UNCHANGED <<notTimed, tScn, tNow, tCancelled, tSchedPc, tWake, tProbes,
                   tArr, tLen, tRLen, tReport>>

\* The statistics are printed, runRequests and main return.
TReportPrint ==
    /\ TimedRunning
    /\ tSchedPc = "count"
    /\ tRIdx >= RangeEnd(tRLen)
    /\ tReport' = [nReq |-> tRLen, nRes |-> tNRes,
                   timeoutRate |-> TimeoutRate(tRLen - tNRes, tRLen)]
    /\ tSchedPc' = "done"
    /\ UNCHANGED <<notTimed, tScn, tNow, tCancelled, tWake, tProbes, tArr, tLen,
                   tRLen, tRIdx, tNRes>>

TProbe(i) ==
    \/ TDo(i)
    \/ TReadBody(i)
    \/ TAppendLoad(i)
    \/ TAppendStoreElem(i)
    \/ TAppendStoreLen(i)

\* A step of the program or of its environment at this instant.
TStep ==
    \/ TCancel
    \/ TSelect
    \/ TDispatch
    \/ TReportLoad
    \/ TReportStep
    \/ TReportPrint
    \/ \E i \in TimedProbeIds : TProbe(i)

\* The instants after now at which something is due: the end of the sleep,
\* the cancellation, the answer or the deadline of a request in flight.
TFuture ==
    {t \in {tWake, tScn.cancelAt}
           \cup UNION {tProbes[i].due \cup {TDeadline(i)} :
                         i \in {j \in TimedProbeIds : tProbes[j].pc = "req"}} :
       t > tNow}

\* Time passes to the next instant at which something is due.
TTick ==
    /\ TimedRunning
    /\ ~ENABLED TStep
    /\ TFuture # {}
    /\ tNow' = CHOOSE t \in TFuture : \A u \in TFuture : t <= u
    /\ UNCHANGED <<notTimed, tScn, tCancelled, tSchedPc, tWake, tProbes, tArr,
                   tLen, tRLen, tRIdx, tNRes, tReport>>

TimedNext ==
    \/ TTick
    \/ TCancel
    \/ TSelect
    \/ TDispatch
    \/ TReportLoad
    \/ TReportStep
    \/ TReportPrint
    \/ \E i \in TimedProbeIds : TProbe(i)

TimedSpec == TimedInit /\ [][TimedNext]_vars

----------------------------------------------------------------------------
(* The earlier iterations: src/unnamed/part_003, part_001, part_000        *)

Iterations == {"part_000", "part_001", "part_003"}

OldInit ==
    /\ Start(TRUE)
    /\ TimedStart(NoScenario)
    /\ \E iter \in Iterations : OldStart(iter)

ORunning == oSchedPc # "done"

ONumDispatched == Cardinality({i \in OldProbeIds : oProbes[i].pc # "idle"})

\* Ctrl+C: the goroutine of setupCloseHandler calls cancel().
OCancel ==
    /\ ORunning
    /\ ~oCancelled
    /\ oCancelled' = TRUE
    /\ UNCHANGED <<notOld, oIter, oSchedPc, oProbes, oHdr, oHeap, oRHdr, oRIdx,
                   oNRes, oAppended, oReport>>

\* The requests the scheduler waits for before it selects again: in
\* part_003 the scheduler itself makes the request and appends.
OSelectWaitsFor ==
    IF oIter = "part_003"
      THEN {i \in OldProbeIds : oProbes[i].pc \notin {"idle", "done"}}
      ELSE {}

\* select { case <-ctx.Done(): ...; default: ... }
OSelect ==
    /\ ORunning
    /\ oSchedPc = "select"
    /\ OSelectWaitsFor = {}
    /\ IF oCancelled
         THEN oSchedPc' = "report"
         ELSE /\ ONumDispatched < MaxOldProbes
              /\ oSchedPc' = "dispatch"
    /\ UNCHANGED <<notOld, oIter, oCancelled, oProbes, oHdr, oHeap, oRHdr, oRIdx,
                   oNRes, oAppended, oReport>>

\* part_001, part_000: go func() { ... }(); time.Sleep(*interval)
\* part_003: res := request(url) is entered.
ODispatch ==
    /\ ORunning
    /\ oSchedPc = "dispatch"
    /\ oProbes' = [oProbes EXCEPT ![ONumDispatched + 1].pc = "req"]
    /\ oSchedPc' = "select"
    /\ UNCHANGED <<notOld, oIter, oCancelled, oHdr, oHeap, oRHdr, oRIdx,
                   oNRes, oAppended, oReport>>

\* res, err := http.DefaultClient.Do(req) (part_003: http.Get(url)): a
\* response, or an error with a nil response.  part_001 goes on to read the
\* body; the others have their result.
ODo(i) ==
    /\ ORunning
    /\ oProbes[i].pc = "req"
    /\ \E ok \in BOOLEAN :
         oProbes' = [oProbes EXCEPT ![i] =
             [@ EXCEPT !.pc = IF ok /\ oIter = "part_001" THEN "body" ELSE "out",
                       !.res = ok]]
    /\ UNCHANGED <<notOld, oIter, oCancelled, oSchedPc, oHdr, oHeap, oRHdr, oRIdx,
                   oNRes, oAppended, oReport>>

\* part_001: bytes, err := ioutil.ReadAll(res.Body); on error return nil.
OReadBody(i) ==
    /\ ORunning
    /\ oProbes[i].pc = "body"
    /\ \E ok \in BOOLEAN :
         oProbes' = [oProbes EXCEPT ![i] = [@ EXCEPT !.pc = "out", !.res = ok]]
    /\ UNCHANGED <<notOld, oIter, oCancelled, oSchedPc, oHdr, oHeap, oRHdr, oRIdx,
                   oNRes, oAppended, oReport>>

\* c := make(chan *http.Response) is unbuffered and known to goroutine i
\* alone: a send on it completes when goroutine i is at its receive, a
\* receive when goroutine i is at a send.
OReceiverWaiting(i) == oProbes[i].pc = "recv"

OSenderWaiting(i) == oProbes[i].pc = "out"

\* request() hands its result over: return res (part_001, part_003), or
\* c <- res, and after an error c <- nil, in part_000.
OHandOver(i) ==
    /\ ORunning
    /\ oProbes[i].pc = "out"
    /\ oIter = "part_000" => OReceiverWaiting(i)
    /\ oProbes' = [oProbes EXCEPT ![i].pc =
                       IF oIter = "part_000" THEN "recv" ELSE "ret"]
    /\ UNCHANGED <<notOld, oIter, oCancelled, oSchedPc, oHdr, oHeap, oRHdr, oRIdx,
                   oNRes, oAppended, oReport>>

\* (part_000: res := <-c;) responses = append(responses, res): the load of
\* the slice header.
OAppendLoad(i) ==
    /\ ORunning
    /\ oProbes[i].pc \in {"ret", "recv"}
    /\ oProbes[i].pc = "recv" => OSenderWaiting(i)
    /\ oProbes' = [oProbes EXCEPT ![i] = [@ EXCEPT !.pc = "app", !.snap = oHdr]]
    /\ UNCHANGED <<notOld, oIter, oCancelled, oSchedPc, oHdr, oHeap, oRHdr, oRIdx,
                   oNRes, oAppended, oReport>>

\* The capacity of an array append allocated to grow one of OldInitLen.
OldGrownCap == 2 * OldInitLen

\* An element's place in oHeap[ptr].
OSlot(index) == index - OldInitLen + 1

\* append to the full array of make: a new array is allocated, the nils
\* copied, the element stored, and `responses` set to the new array.
OAppendGrow(i) ==
    /\ ORunning
    /\ oProbes[i].pc = "app"
    /\ oProbes[i].snap.ptr = 0
    /\ oHeap' = [oHeap EXCEPT ![i][OSlot(oProbes[i].snap.len)] = oProbes[i].res]
    /\ oHdr' = [ptr |-> i, len |-> oProbes[i].snap.len + 1]
    /\ oProbes' = [oProbes EXCEPT ![i] = [IdleOldProbe EXCEPT !.pc = "done"]]
    /\ UNCHANGED <<notOld, oIter, oCancelled, oSchedPc, oRHdr, oRIdx,
                   oNRes, oAppended, oReport>>

\* append to an array with room: the store of the element ...
OAppendStoreElem(i) ==
    /\ ORunning
    /\ oProbes[i].pc \in {"app", "appL"}
    /\ oProbes[i].snap.ptr # 0
    /\ oProbes[i].snap.len < OldGrownCap
    /\ oHeap' = [oHeap EXCEPT ![oProbes[i].snap.ptr][OSlot(oProbes[i].snap.len)] =
                                  oProbes[i].res]
    /\ oProbes' = [oProbes EXCEPT ![i] =
           IF @.pc = "app" THEN [@ EXCEPT !.pc = "appE"]
           ELSE [IdleOldProbe EXCEPT !.pc = "done"]]
    /\ UNCHANGED <<notOld, oIter, oCancelled, oSchedPc, oHdr, oRHdr, oRIdx,
                   oNRes, oAppended, oReport>>

\* ... and the store of the slice header, in either order.
OAppendStoreHdr(i) ==
    /\ ORunning
    /\ oProbes[i].pc \in {"app", "appE"}
    /\ oProbes[i].snap.ptr # 0
    /\ oProbes[i].snap.len < OldGrownCap
    /\ oHdr' = [ptr |-> oProbes[i].snap.ptr, len |-> oProbes[i].snap.len + 1]
    /\ oProbes' = [oProbes EXCEPT ![i] =
           IF @.pc = "app" THEN [@ EXCEPT !.pc = "appL"]
           ELSE [IdleOldProbe EXCEPT !.pc = "done"]]
    /\ UNCHANGED <<notOld, oIter, oCancelled, oSchedPc, oHeap, oRHdr, oRIdx,
                   oNRes, oAppended, oReport>>

\* printStatistics(responses): nReq, nRes := len(responses), 0
OReportLoad ==
    /\ ORunning
    /\ oSchedPc = "report"
    /\ oRHdr' = oHdr
    /\ oRIdx' = 0
    /\ oNRes' = 0
    /\ oAppended' = Cardinality({i \in OldProbeIds : oProbes[i].pc = "done"})
    /\ oSchedPc' = "count"
    /\ UNCHANGED <<notOld, oIter, oCancelled, oProbes, oHdr, oHeap, oReport>>

\* responses[index] of the slice value printStatistics was passed.
OElement(index) ==
    IF index < OldInitLen THEN FALSE ELSE oHeap[oRHdr.ptr][OSlot(index)]

\* for _, res := range responses { if res != nil { nRes++ } }
OReportStep ==
    /\ ORunning
    /\ oSchedPc = "count"
    /\ oRIdx < oRHdr.len
    /\ oNRes' = IF OElement(oRIdx) THEN oNRes + 1 ELSE oNRes
    /\ oRIdx' = oRIdx + 1
    /\ UNCHANGED <<notOld, oIter, oCancelled, oSchedPc, oProbes, oHdr, oHeap,
                   oRHdr, oAppended, oReport>>

\* float64(nTout/nReq)*100 as "%.2f" prints it: the division is the
\* integer one.
OldTimeoutRate(nTout, nReq) == Finite(((nTout \div nReq) * 100) * 100)

\* nTout := nReq - nRes; fmt.Printf(...); runRequests and main return.
OReportPrint ==
    /\ ORunning
    /\ oSchedPc = "count"
    /\ oRIdx >= oRHdr.len
    /\ oReport' = [nReq |-> oRHdr.len, nRes |-> oNRes,
                   timeoutRate |-> OldTimeoutRate(oRHdr.len - oNRes, oRHdr.len)]
    /\ oSchedPc' = "done"
    /\ UNCHANGED <<notOld, oIter, oCancelled, oProbes, oHdr, oHeap, oRHdr, oRIdx,
                   oNRes, oAppended>>

OProbe(i) ==
    \/ ODo(i)
    \/ OReadBody(i)
    \/ OHandOver(i)
    \/ OAppendLoad(i)
    \/ OAppendGrow(i)
    \/ OAppendStoreElem(i)
    \/ OAppendStoreHdr(i)

OldNext ==
    \/ OCancel
    \/ OSelect
    \/ ODispatch
    \/ OReportLoad
    \/ OReportStep
    \/ OReportPrint
    \/ \E i \in OldProbeIds : OProbe(i)

OldSpec == OldInit /\ [][OldNext]_vars

\* A step of runRequests.
OSched ==
    \/ OSelect
    \/ ODispatch
    \/ OReportLoad
    \/ OReportStep
    \/ OReportPrint

\* A goroutine that has a step takes it.  The operator is not required to
\* interrupt the run.
OldLiveSpec ==
    /\ OldSpec
    /\ WF_vars(OSched)
    /\ \A i \in OldProbeIds : WF_vars(OProbe(i))

----------------------------------------------------------------------------
(* Properties *)

Appending == {i \in ProbeIds : probes[i].pc \in {"app", "appE", "appL"}}
NumDone == Cardinality({i \in ProbeIds : probes[i].pc = "done"})
Returned(i) == probes[i].pc = "ret"
Printed == reports > 0

\* C1: no lost updates.  Whenever no probe goroutine is in the middle of its
\* append, the shared slice holds exactly one outcome per probe goroutine
\* that has completed its append.
C1_NoLostUpdates == (Appending = {}) => hdrLen = NumDone

\* C2: the printed timeoutRate is a number in [0, 100] (0..10000 hundredths),
\* and it is 0 when no request was recorded.
C2_TimeoutRateDefined ==
    Printed =>
        /\ report.timeoutRate.class = "finite"
        /\ report.timeoutRate.hundredths \in 0..10000
        /\ (report.nReq = 0 => report.timeoutRate = Finite(0))

\* C3: a probe whose deadline expired before its response was fully received
\* returns a Record that printStatistics does not count as a response.
C3_TimedOutNotCounted ==
    \A i \in ProbeIds :
        (Returned(i) /\ probes[i].status = "TimedOut")
            => ~CountsAsResponse(probes[i].rec)

\* C4: a probe whose Do returned a response but whose body read failed
\* returns a Record that printStatistics does not count as a response.
C4_BodyFailureNotCounted ==
    \A i \in ProbeIds :
        (Returned(i) /\ probes[i].failedAt = "body")
            => ~CountsAsResponse(probes[i].rec)

\* C5: no failure of a probe ends the run: the process never dies of a
\* probe, no probe goroutine panics, and the process exits only after
\* cancellation.
C5_FailuresNeverAbort ==
    /\ procState # "crashed"
    /\ \A i \in ProbeIds : probes[i].pc # "panic"
    /\ (procState = "exited" => cancelled)

\* C6: the slice never holds more outcomes than probes were dispatched, and
\* once every dispatched probe goroutine has ended it holds exactly one
\* outcome per dispatched probe.
C6_OneOutcomePerProbe ==
    /\ hdrLen <= NumDispatched
    /\ ((\A i \in ProbeIds : probes[i].pc \in {"idle", "done"})
            => hdrLen = NumDispatched)

ReportPhase == {"report", "count", "return", "done"}

\* C7: the scheduler checks cancellation first in every iteration.  A probe
\* is dispatched only by the go statement, one at a time; the go statement
\* is reached only from a select that found the context not done; a select
\* that finds the context done goes to the report; and from the report on
\* no probe is dispatched and the scheduler only prints and returns.
C7_CancelCheckedFirst ==
    /\ [][NumDispatched' # NumDispatched
            => (schedPc = "dispatch" /\ NumDispatched' = NumDispatched + 1)]_vars
    /\ [][(schedPc # "dispatch" /\ schedPc' = "dispatch")
            => (schedPc = "select" /\ ~cancelled)]_vars
    /\ [][(schedPc = "select" /\ cancelled /\ schedPc' # schedPc)
            => schedPc' = "report"]_vars
    /\ [][(schedPc \in ReportPhase)
            => (schedPc' \in ReportPhase /\ NumDispatched' = NumDispatched)]_vars

\* C7 witness: a select observed cancellation after a probe had been
\* dispatched and before the last one was; the report is printed and
\* runRequests has returned.
C7_Witness ==
    /\ schedPc = "done"
    /\ reports = 1
    /\ NumDispatched \in 1..(MaxProbes - 1)

\* C8 (safety part): an interrupt that has been delivered is never lost (the
\* context is cancelled or the handler is about to cancel it), the process
\* does not die after it, the report is printed at most once, and exactly
\* once by the time the process exits.
C8_GracefulShutdown ==
    /\ (interrupts > 0 =>
            /\ procState # "crashed"
            /\ (cancelled \/ handlerPc = "caught"))
    /\ reports <= 1
    /\ (procState = "exited" => reports = 1)

\* A Record of a probe that received its response and read the body to the
\* end: the only path of request() that sets ElapsedTime.
IsSuccess(rec) == rec.Response /\ rec.ElapsedTime

\* C9: for a non-empty collection the report has requestsSent = the number
\* of outcomes recorded, responsesReceived = the number of those that are
\* successes, and timeoutRate = (sent - received) / sent * 100 (to the two
\* decimals printed).
C9_ReportMatchesCollection ==
    (Printed /\ report.nReq > 0) =>
        /\ report.nReq = rLen
        /\ report.nRes = Cardinality({s \in 1..rLen : IsSuccess(arr[s])})
        /\ report.timeoutRate.class = "finite"
        /\ LET d == report.timeoutRate.hundredths * report.nReq
                      - (report.nReq - report.nRes) * 10000
           IN  2 * d <= report.nReq /\ -2 * d <= report.nReq

\* C10: responsesReceived <= requestsSent in every report printed.
C10_ReceivedAtMostSent ==
    Printed => (0 <= report.nRes /\ report.nRes <= report.nReq)

\* C10 witness: a report over a mix of outcomes, one counted and one not.
C10_Witness == Printed /\ report.nReq = 2 /\ report.nRes = 1

\* C11: a probe that received a response, whatever its HTTP status code, and
\* read the body to the end returns a Record that printStatistics counts as
\* a response received.
C11_AnyStatusCounted ==
    \A i \in ProbeIds :
        (Returned(i) /\ probes[i].failedAt = "none" /\ probes[i].code \in HTTPCodes)
            => (probes[i].status = "Success" /\ CountsAsResponse(probes[i].rec))

\* C11 witness: a probe answered with HTTP 500 has returned after reading
\* the whole body.
C11_Witness ==
    \E i \in ProbeIds :
        /\ Returned(i)
        /\ probes[i].code = 500
        /\ probes[i].status = "Success"
        /\ CountsAsResponse(probes[i].rec)

InFlight(i) == probes[i].pc \in {"req", "reqX", "body", "bodyX"}

\* C15: on cancellation the scheduler does not wait for the probes in
\* flight: once a select has observed cancellation the statistics can be
\* printed at once, whatever the probe goroutines are doing, and the report
\* never counts more than the probes dispatched.
C15_ReportDoesNotWait ==
    /\ (Running /\ schedPc = "report") => ENABLED ReportLoad
    /\ Printed => report.nReq <= NumDispatched

\* C15 witness: the report is printed while a dispatched probe has not
\* appended its outcome, and counts fewer requests than were dispatched.
C15_Witness ==
    /\ Printed
    /\ \E i \in ProbeIds : InFlight(i)
    /\ report.nReq < NumDispatched

\* C16: dispatch is fire-and-forget: the go statement is never blocked by
\* an earlier probe, whatever state the earlier probes are in.
C16_FireAndForget ==
    (Running /\ schedPc = "dispatch") => ENABLED Dispatch

\* C16 witness: probe 2 has appended its outcome and ended while probe 1,
\* dispatched before it, is still in flight.
C16_Witness == InFlight(1) /\ probes[2].pc = "done"

\* C17: a probe in flight whose deadline has passed, or whose run has been
\* cancelled, eventually leaves request() (or the process ends), and when it
\* returns with its context done it returns a failure.
C17_ProbeBounded ==
    /\ \A i \in ProbeIds :
          (InFlight(i) /\ (Expired(i) \/ cancelled))
              ~> (~InFlight(i) \/ ~Running)
    /\ [][\A i \in ProbeIds :
            (InFlight(i) /\ (Expired(i) \/ cancelled) /\ probes'[i].pc = "ret")
                => probes'[i].status # "Success"]_vars

\* C17 witness: a probe has returned from request() because its deadline
\* passed.
C17_Witness ==
    \E i \in ProbeIds : Returned(i) /\ probes[i].status = "TimedOut"

\* C18: ElapsedTime is set only on success.  A Record held by a probe
\* goroutine has ElapsedTime set only once request() has returned with
\* success, and a Record in the slice with ElapsedTime set has its Request
\* and Response set.
C18_ElapsedOnlyOnSuccess ==
    /\ \A i \in ProbeIds :
          probes[i].rec.ElapsedTime =>
              /\ probes[i].pc \in {"ret", "app", "appE", "appL"}
              /\ (Returned(i) => probes[i].status = "Success")
    /\ \A i \in ProbeIds :
          (Returned(i) /\ probes[i].status # "Success")
              => ~probes[i].rec.ElapsedTime
    /\ \A s \in 1..InitCap :
          arr[s].ElapsedTime => (arr[s].Request /\ arr[s].Response)

\* C18 witness: the slice holds the Record of a success, with ElapsedTime,
\* and the Record of a probe that failed after its response arrived,
\* without.
C18_Witness ==
    \E s, t \in 1..hdrLen :
        /\ arr[s].ElapsedTime
        /\ arr[t].Response /\ ~arr[t].ElapsedTime

\* The scheduler of the timed run has left its loop.
TReportPhase == {"report", "count", "done"}

\* C12: interval-paced dispatch.  With statements that take no time, the
\* i-th probe is dispatched at (i - 1) * interval, and with interval = 100ms
\* and a cancellation at about 550ms the scheduler has dispatched 5 to 6
\* probes when it leaves its loop.
C12_IntervalPacedDispatch ==
    /\ \A i \in TimedProbeIds :
         tProbes[i].pc # "idle" => tProbes[i].start = (i - 1) * tScn.interval
    /\ (tScn.name = "C12" /\ tSchedPc \in TReportPhase)
         => TNumDispatched \in 5..6

C12_Witness ==
    /\ tScn.name = "C12"
    /\ tScn.cancelAt = 550
    /\ tSchedPc = "done"
    /\ TNumDispatched = 6
    /\ tProbes[6].start = 500

\* C13: all probes succeed.  The target answers every request in under
\* 10ms, interval = 50ms, cancellation at 250ms: the report has requestsSent
\* in {4, 5}, responsesReceived = requestsSent and timeoutRate = 0.00.
C13_AllSucceed ==
    (tScn.name = "C13" /\ tSchedPc = "done")
      => /\ tReport.nReq \in {4, 5}
         /\ tReport.nRes = tReport.nReq
         /\ tReport.timeoutRate = Finite(0)

C13_Witness ==
    /\ tScn.name = "C13"
    /\ tScn.cancelAt = 250
    /\ tSchedPc = "done"
    /\ tReport.nReq = 5
    /\ tReport.nRes = 5
    /\ tReport.timeoutRate = Finite(0)

\* C14: all probes time out.  The target never responds, timeout = 20ms,
\* interval = 50ms, cancellation at 250ms: the report has requestsSent in
\* {4, 5}, responsesReceived = 0 and timeoutRate = 100.00.
C14_AllTimeOut ==
    (tScn.name = "C14" /\ tSchedPc = "done")
      => /\ tReport.nReq \in {4, 5}
         /\ tReport.nRes = 0
         /\ tReport.timeoutRate = Finite(10000)

C14_Witness ==
    /\ tScn.name = "C14"
    /\ tScn.cancelAt = 250
    /\ tSchedPc = "done"
    /\ tReport.nReq = 5
    /\ tReport.nRes = 0
    /\ tReport.timeoutRate = Finite(10000)

\* C19: in part_000 the hand-off of the result over the goroutine's channel
\* does not block forever: a probe goroutine whose request() has its result
\* goes on to append it, unless the process ends first.
C19_HandOffCompletes ==
    \A i \in OldProbeIds :
        (oIter = "part_000" /\ oProbes[i].pc = "out")
          ~> (oProbes[i].pc = "done" \/ oSchedPc = "done")

\* C20: in part_000, part_001 and part_003 the report counts only real
\* probes: "requests transmitted" is the number of results appended when
\* the statistics are taken, and the percentage printed is
\* (transmitted - received) / transmitted * 100.
C20_ReportCountsRealProbes ==
    (oSchedPc = "done")
      => /\ oReport.nReq = oAppended
         /\ oReport.timeoutRate =
                TimeoutRate(oReport.nReq - oReport.nRes, oReport.nReq)

====
